---------------------------- MODULE Spec2Model ----------------------------
(***************************************************************************)
(* A model of scrape.py, the script that collects the activity of the      *)
(* Apache Arrow repositories from the GitHub REST API: the rate-limit gate *)
(* (check_rate_limit), the paginated fetcher (fetch_paginated_data), the   *)
(* display-name resolver (fetch_display_name), the five event extractors,  *)
(* the commit deduplicator (filter_duplicate_commits), the aggregator      *)
(* (collect_data) and the module's top-level code that sorts and persists  *)
(* the dataset.                                                            *)
(*                                                                         *)
(* The program is sequential.  pc is its position; the GitHub server is    *)
(* the environment: every HTTP response is drawn from a small set.         *)
(***************************************************************************)
EXTENDS Integers, Sequences, FiniteSets, TLC

(***************************************************************************)
(* Bounds of the model.                                                    *)
(***************************************************************************)
\* Items the server hands out during one run, over all endpoints.
MaxItems == 2
\* Items in one page of a list endpoint (per_page=100 in the source).
MaxPerPage == 2
\* Repositories of the list that precede apache/arrow and are kept.
NumMirrors == 1
\* check_rate_limit called on its own: X-RateLimit-Remaining is at most this,
MaxRemaining == 2
\* X-RateLimit-Reset lies at most this many seconds before the local clock,
MaxSkew == 10
\* and at most this many seconds after it.
MaxAhead == 10
\* filter_duplicate_commits called on its own: the length of each argument.
MaxCommits == 3

(***************************************************************************)
(* Values.                                                                 *)
(***************************************************************************)
\* Python's None / JSON's null, where a string is expected.
Null == "<null>"
\* The sentinel username of an item whose user reference is null.
Unknown == "Unknown"
\* The canonical repository.
Canonical == "apache/arrow"

\* The repository list of the source.
SourceRepos ==
    << "apache/arrow-adbc", "apache/arrow-cookbook", "apache/arrow-go",
       "apache/arrow-julia", "apache/arrow-nanoarrow", "apache/arrow-rs",
       "apache/arrow-site", "apache/arrow-testing", "apache/arrow" >>

\* The list the model iterates over: the last NumMirrors mirrors, then the
\* canonical repository, in the order of the source.
Repos == SubSeq(SourceRepos, Len(SourceRepos) - NumMirrors, Len(SourceRepos))

\* The extractors, named by the endpoint each reads, in collect_data's order.
Kinds == <<"commits", "pulls", "issues", "issues/comments", "pulls/comments">>
KindSet == {Kinds[i] : i \in 1..Len(Kinds)}

\* action_type of the records of each extractor.
ActionType(kind) ==
    CASE kind = "commits"        -> "commit"
      [] kind = "pulls"          -> "PR opened"
      [] kind = "issues"         -> "issue opened"
      [] kind = "issues/comments" -> "issue comment"
      [] kind = "pulls/comments" -> "PR comment"

\* ISO-8601 timestamps as the API returns them.
T1 == "2024-01-01T00:00:00Z"
T2 == "2024-01-02T00:00:00Z"
T3 == "2024-01-03T00:00:00Z"

\* pd.to_datetime: the instant of a timestamp string, in days since 2024-01-01.
to_datetime(s) ==
    CASE s = T1 -> 0
      [] s = T2 -> 1
      [] s = T3 -> 2

\* The raw items the server may return.  user is the login of the item's
\* user/author object, or Null when the API returned null for it; pr marks an
\* issue that carries a "pull_request" field.
Item(user, ts, sha, author_name, pr) ==
    [user |-> user, ts |-> ts, sha |-> sha, author_name |-> author_name, pr |-> pr]

CommitItems ==
    { Item("alice", T2, "sha1", "Alice (git)", FALSE),
      Item(Null,    T1, "sha2", "Anon (git)",  FALSE) }

EventItems ==
    { Item("alice", T1, "", "", FALSE),
      Item(Null,    T3, "", "", FALSE) }

IssueItems == EventItems \cup { Item("alice", T2, "", "", TRUE) }

Items(kind) ==
    CASE kind = "commits" -> CommitItems
      [] kind = "issues"  -> IssueItems
      [] OTHER            -> EventItems

\* The logins the resolver can be asked about.
Usernames == {"alice", Unknown}

\* All sequences over S of length lo..hi.
SeqsOf(S, lo, hi) == UNION { [1..n -> S] : n \in lo..hi }

\* The bodies a list endpoint may return for one page when the server may
\* still hand out `left` items: the empty collection or up to MaxPerPage items.
PageBodies(kind, left) ==
    SeqsOf(Items(kind), 0, IF left < MaxPerPage THEN left ELSE MaxPerPage)

\* The status line and rate-limit headers of a response.  resetIn is
\* X-RateLimit-Reset minus int(time.time()) at the moment check_rate_limit
\* reads the clock; the header is read only when remaining is 0.  An absent
\* X-RateLimit-Remaining header is the default headers.get gives it, 1.
Response(status, remaining, resetIn) ==
    [status |-> status, remaining |-> remaining, resetIn |-> resetIn]

\* The reset times of the responses of a fetch: two seconds before the local
\* clock (sleep_time is -1) and at the local clock (sleep_time is 1).
ResetIns == {0 - 2, 0}

RateHeaders ==
    { <<1, 0>> } \cup { <<0, d>> : d \in ResetIns }

Responses(statuses) ==
    { Response(s, h[1], h[2]) : s \in statuses, h \in RateHeaders }

\* response = None
NoResponse == Response(0, 1, 0)

\* The values of the "name" field of a user profile: a display name, null
\* (no display name set), or no such field.
Absent == "<absent>"
ProfileNames == {"Alice Liddell", Null, Absent}

VARIABLES
    pc,             \* position of the program
    exc,            \* the exception that ended the program, or "none"
    url,            \* fetch_paginated_data: [repo, kind] of the endpoint
    page,           \* fetch_paginated_data: page
    retries,        \* fetch_paginated_data: retries
    response,       \* fetch_paginated_data: response
    results,        \* fetch_paginated_data: results, then the extractor's data
    lastPage,       \* history: the page number of the latest request of this call (0: none)
    attempts,       \* history: how many requests in a row asked for lastPage
    inOrder,        \* history: every request asked for the page of the one before, or the next
    pagesGot,       \* history: [page, data] of every 200 response of this call
    everyFailed,    \* history: no page request of the run was answered 200
    served,         \* items the server has handed out
    slept,          \* the time.sleep durations of the latest step
    gateRet,        \* the value check_rate_limit returned last
    idx,            \* extractor: position in data (1-based)
    out,            \* extractor: the records built so far
    cache,          \* user_display_name_cache
    profileReqs,    \* history: profile requests issued, per username
    resolverCalls,  \* history: usernames fetch_display_name was called with, per extractor
    repoIdx,        \* collect_data: position in repos (0: before collect_data)
    stage,          \* collect_data: position in Kinds for the current repo
    arrow_commits,  \* the module's arrow_commits
    all_data,       \* collect_data: all_data
    callLog,        \* history: the extractor calls made, in order
    fetched,        \* history: what fetch_commits returned, per repository
    csv,            \* activity.csv: [columns, rows], or NoFile
    dedupArgs,      \* filter_duplicate_commits called on its own: its arguments
    dedupOut        \* filter_duplicate_commits called on its own: its result

fetchVars == <<url, page, retries, response, results, lastPage, attempts,
              inOrder, pagesGot>>
extractVars == <<idx, out>>
resolverVars == <<cache, profileReqs, resolverCalls>>
runVars == <<repoIdx, stage, arrow_commits, all_data, callLog, fetched, csv>>
dedupVars == <<dedupArgs, dedupOut>>
vars == <<pc, exc, fetchVars, everyFailed, served, slept, gateRet, extractVars,
          resolverVars, runVars, dedupVars>>

(***************************************************************************)
(* check_rate_limit                                                        *)
(***************************************************************************)
\* What a call does: the time.sleep calls it makes, whether time.sleep raises
\* (ValueError: sleep length must be non-negative), and the value returned.
check_rate_limit(resp) ==
    LET remaining == resp.remaining
        sleep_time == resp.resetIn + 1
    IN  IF remaining = 0
        THEN [sleeps |-> <<sleep_time>>, raised |-> sleep_time < 0, ret |-> remaining]
        ELSE [sleeps |-> <<>>, raised |-> FALSE, ret |-> remaining]

(***************************************************************************)
(* fetch_paginated_data                                                    *)
(***************************************************************************)
\* A fault for C2: the new items go in front of the list.
extend_in_front(list, items) == items \o list

\* list.extend(items)
extend(list, items) == list \o items

\* A fault for C8: the loop goes on while retries >= 0, a fourth attempt.
MayRetryOnceMore(r) == r >= 0

\* while retries > 0
MayRetry(r) == r > 0

\* The call: page = 1, results = [], and the first pass of the outer loop up
\* to the request (retries = 3, response = None).
CallFetch(u) ==
    /\ url' = u
    /\ page' = 1
    /\ results' = <<>>
    /\ retries' = 3
    /\ response' = NoResponse
    /\ lastPage' = 0
    /\ attempts' = 0
    /\ inOrder' = TRUE
    /\ pagesGot' = <<>>
    /\ pc' = "request"

\* response = requests.get(paginated_url, headers=HEADERS)
FetcherRequest ==
    /\ pc = "request"
    /\ \E r \in Responses({200, 500}) : response' = r
    /\ lastPage' = page
    /\ attempts' = IF page = lastPage THEN attempts + 1 ELSE 1
    /\ inOrder' = (inOrder /\ page \in {lastPage, lastPage + 1} /\ page >= 1)
    /\ slept' = <<>>
    /\ pc' = "gate"
    /\ UNCHANGED <<exc, url, page, retries, results, pagesGot, served, everyFailed,
                   gateRet, extractVars, resolverVars, runVars, dedupVars>>

\* check_rate_limit(response)
FetcherGate ==
    /\ pc = "gate"
    /\ LET g == check_rate_limit(response)
       IN  /\ slept' = g.sleeps
           /\ IF g.raised
              THEN /\ exc' = "ValueError"
                   /\ pc' = "crashed"
              ELSE /\ pc' = "status"
                   /\ UNCHANGED exc
    /\ UNCHANGED <<fetchVars, served, everyFailed, gateRet, extractVars, resolverVars, runVars,
                   dedupVars>>

\* The rest of the pass: the status test, the retry or the end of the inner
\* loop, then data = response.json() and the end of pagination or the next page.
FetcherStatus ==
    /\ pc = "status"
    /\ IF response.status # 200
       THEN /\ retries' = retries - 1
            /\ slept' = <<1>>
            /\ pc' = IF MayRetry(retries - 1) THEN "request" ELSE "returned"
            /\ UNCHANGED <<page, results, response, pagesGot, served, everyFailed>>
       ELSE \E data \in PageBodies(url.kind, MaxItems - served) :
            /\ pagesGot' = Append(pagesGot, [page |-> page, data |-> data])
            /\ served' = served + Len(data)
            /\ everyFailed' = FALSE
            /\ IF data = <<>>
               THEN /\ pc' = "returned"
                    /\ UNCHANGED <<page, results, retries, response>>
               ELSE /\ results' = extend(results, data)
                    /\ page' = page + 1
                    /\ retries' = 3
                    /\ response' = NoResponse
                    /\ pc' = "request"
            /\ slept' = <<>>
    /\ UNCHANGED <<exc, url, lastPage, attempts, inOrder, gateRet, extractVars, resolverVars,
                   runVars, dedupVars>>

(***************************************************************************)
(* fetch_display_name                                                      *)
(***************************************************************************)
\* No entry of user_display_name_cache.
NotCached == "<not cached>"

\* Python's truth test of a display name: None and "" are false.
Falsy(name) == name \in {"", Null}

\* The profile responses: found or not, with any rate-limit headers, and any
\* value of the profile's "name" field.
ProfileResponses ==
    { [resp |-> r, name |-> n] : r \in Responses({200, 404}), n \in ProfileNames }

\* A fault for C4: a failed profile request is not cached.
fetch_display_name_uncached_failure(username, c) ==
    IF c[username] # NotCached
    THEN { [ret |-> c[username], cache |-> c, requested |-> FALSE,
            raised |-> FALSE, sleeps |-> <<>>] }
    ELSE { LET g == check_rate_limit(p.resp)
               display_name == IF p.name = Absent THEN "" ELSE p.name
           IN  IF g.raised
               THEN [ret |-> Null, cache |-> c, requested |-> TRUE,
                     raised |-> TRUE, sleeps |-> g.sleeps]
               ELSE IF p.resp.status = 200
               THEN [ret |-> display_name,
                     cache |-> [c EXCEPT ![username] = display_name],
                     requested |-> TRUE, raised |-> FALSE, sleeps |-> g.sleeps]
               ELSE [ret |-> "", cache |-> c,
                     requested |-> TRUE, raised |-> FALSE, sleeps |-> g.sleeps]
           : p \in ProfileResponses }

\* What a call with cache c can do: the value returned, the cache afterwards,
\* whether a profile request was issued, the sleeps, and whether
\* check_rate_limit raised (then nothing is returned and nothing cached).
fetch_display_name(username, c) ==
    IF c[username] # NotCached
    THEN { [ret |-> c[username], cache |-> c, requested |-> FALSE,
            raised |-> FALSE, sleeps |-> <<>>] }
    ELSE { LET g == check_rate_limit(p.resp)
               display_name == IF p.name = Absent THEN "" ELSE p.name
           IN  IF g.raised
               THEN [ret |-> Null, cache |-> c, requested |-> TRUE,
                     raised |-> TRUE, sleeps |-> g.sleeps]
               ELSE IF p.resp.status = 200
               THEN [ret |-> display_name,
                     cache |-> [c EXCEPT ![username] = display_name],
                     requested |-> TRUE, raised |-> FALSE, sleeps |-> g.sleeps]
               ELSE [ret |-> "",
                     cache |-> [c EXCEPT ![username] = ""],
                     requested |-> TRUE, raised |-> FALSE, sleeps |-> g.sleeps]
           : p \in ProfileResponses }

(***************************************************************************)
(* The event extractors: fetch_commits, fetch_pull_requests, fetch_issues, *)
(* fetch_issue_comments, fetch_pull_reviews                                *)
(***************************************************************************)
\* username = item["user"]["login"] if item["user"] else "Unknown"
UsernameOf(item) == IF item.user # Null THEN item.user ELSE Unknown

\* A fault for C5: every extractor calls fetch_display_name, as fetch_commits does.
CallsResolverAlways(kind, username) == TRUE

\* Whether the extractor calls fetch_display_name for this username:
\* fetch_commits always does, the others unless the username is "Unknown".
CallsResolver(kind, username) == kind = "commits" \/ username # Unknown

\* Whether the extractor skips the item: fetch_issues skips pull requests.
Skips(kind, item) == kind = "issues" /\ item.pr

\* The name of the record, from what the resolver returned: fetch_commits
\* falls back to the commit's embedded author name.
NameOf(kind, item, resolved) ==
    IF kind = "commits" /\ Falsy(resolved) THEN item.author_name ELSE resolved

\* The record an extractor appends; only a commit record has a "sha" key.
Record(kind, repo, item, username, name) ==
    IF kind = "commits"
    THEN [sha |-> item.sha, timestamp |-> item.ts, username |-> username,
          name |-> name, action_type |-> ActionType(kind), repository |-> repo]
    ELSE [timestamp |-> item.ts, username |-> username,
          name |-> name, action_type |-> ActionType(kind), repository |-> repo]

\* The extractor's code after fetch_paginated_data returned: the empty list
\* of records.  The fetcher's frame is gone; data is kept in results.
ExtractorBegin ==
    /\ pc = "returned"
    /\ idx' = 1
    /\ out' = <<>>
    /\ page' = 1
    /\ retries' = 3
    /\ response' = NoResponse
    /\ lastPage' = 0
    /\ attempts' = 0
    /\ inOrder' = TRUE
    /\ pagesGot' = <<>>
    /\ slept' = <<>>
    /\ pc' = "extract"
    /\ UNCHANGED <<exc, url, results, served, everyFailed, gateRet, resolverVars, runVars,
                   dedupVars>>

\* One pass of the extractor's loop over data, fetch_display_name included.
ExtractItem ==
    /\ pc = "extract"
    /\ idx <= Len(results)
    /\ LET item == results[idx]
           kind == url.kind
           username == UsernameOf(item)
       IN  IF Skips(kind, item)
           THEN /\ idx' = idx + 1
                /\ slept' = <<>>
                /\ UNCHANGED <<pc, exc, out, resolverVars>>
           ELSE IF ~CallsResolver(kind, username)
           THEN /\ out' = Append(out, Record(kind, url.repo, item, username, "Unknown"))
                /\ idx' = idx + 1
                /\ slept' = <<>>
                /\ UNCHANGED <<pc, exc, resolverVars>>
           ELSE \E o \in fetch_display_name(username, cache) :
                /\ resolverCalls' =
                       [resolverCalls EXCEPT ![kind] = @ \cup {username}]
                /\ profileReqs' =
                       [profileReqs EXCEPT ![username] = @ + (IF o.requested THEN 1 ELSE 0)]
                /\ cache' = o.cache
                /\ slept' = o.sleeps
                /\ IF o.raised
                   THEN /\ exc' = "ValueError"
                        /\ pc' = "crashed"
                        /\ UNCHANGED <<idx, out>>
                   ELSE /\ out' = Append(out, Record(kind, url.repo, item, username,
                                                     NameOf(kind, item, o.ret)))
                        /\ idx' = idx + 1
                        /\ UNCHANGED <<pc, exc>>
    /\ UNCHANGED <<fetchVars, served, everyFailed, gateRet, runVars, dedupVars>>

(***************************************************************************)
(* filter_duplicate_commits                                                *)
(***************************************************************************)
\* A fault for C3: the test of the comprehension is inverted.
filter_keeping_duplicates(source_commits, target_commits) ==
    LET source_shas == { source_commits[i].sha : i \in 1..Len(source_commits) }
    IN  SelectSeq(target_commits, LAMBDA commit : commit.sha \in source_shas)

filter_duplicate_commits(source_commits, target_commits) ==
    LET source_shas == { source_commits[i].sha : i \in 1..Len(source_commits) }
    IN  SelectSeq(target_commits, LAMBDA commit : commit.sha \notin source_shas)

(***************************************************************************)
(* collect_data and the module's top-level code                            *)
(***************************************************************************)
RepoSet == { SourceRepos[i] : i \in 1..Len(SourceRepos) }

\* A fault for C9: apache/arrow is treated like every other repository.
NeverCanonical(repo) == FALSE

\* repo != "apache/arrow", negated
IsCanonical(repo) == repo = Canonical

\* The extractor returned: its frame is gone.
DropFrame ==
    /\ results' = <<>>
    /\ idx' = 1
    /\ out' = <<>>
    /\ slept' = <<>>

\* arrow_commits = fetch_commits("apache/arrow"): the call.
FetchArrowCommits ==
    /\ pc = "idle"
    /\ repoIdx = 0
    /\ CallFetch([repo |-> Canonical, kind |-> "commits"])
    /\ callLog' = Append(callLog, [repo |-> Canonical, kind |-> "commits"])
    /\ UNCHANGED <<exc, served, everyFailed, slept, gateRet, extractVars, resolverVars,
                   repoIdx, stage, arrow_commits, all_data, fetched, csv, dedupVars>>

\* arrow_commits = fetch_commits("apache/arrow"): the return, and the entry
\* into collect_data (all_data = [], the first repo).
ArrowCommitsReturn ==
    /\ pc = "extract"
    /\ idx > Len(results)
    /\ repoIdx = 0
    /\ arrow_commits' = out
    /\ fetched' = [fetched EXCEPT ![Canonical] = out]
    /\ repoIdx' = 1
    /\ stage' = 1
    /\ all_data' = <<>>
    /\ DropFrame
    /\ pc' = "idle"
    /\ UNCHANGED <<exc, url, page, retries, response, lastPage, attempts, inOrder,
                   pagesGot, served, everyFailed, gateRet, resolverVars, callLog, csv, dedupVars>>

\* The position after the current extractor of the current repo.
Advance ==
    IF stage = Len(Kinds)
    THEN /\ repoIdx' = repoIdx + 1
         /\ stage' = 1
    ELSE /\ stage' = stage + 1
         /\ UNCHANGED repoIdx

\* collect_data calls the next extractor of the current repo; for
\* apache/arrow it calls no fetch_commits.
CollectCall ==
    /\ pc = "idle"
    /\ repoIdx \in 1..Len(Repos)
    /\ ~(Kinds[stage] = "commits" /\ IsCanonical(Repos[repoIdx]))
    /\ CallFetch([repo |-> Repos[repoIdx], kind |-> Kinds[stage]])
    /\ callLog' = Append(callLog, [repo |-> Repos[repoIdx], kind |-> Kinds[stage]])
    /\ UNCHANGED <<exc, served, everyFailed, slept, gateRet, extractVars, resolverVars,
                   repoIdx, stage, arrow_commits, all_data, fetched, csv, dedupVars>>

\* all_data.extend(arrow_commits)
CollectCanonical ==
    /\ pc = "idle"
    /\ repoIdx \in 1..Len(Repos)
    /\ Kinds[stage] = "commits"
    /\ IsCanonical(Repos[repoIdx])
    /\ all_data' = extend(all_data, arrow_commits)
    /\ Advance
    /\ UNCHANGED <<pc, exc, fetchVars, served, everyFailed, slept, gateRet, extractVars,
                   resolverVars, arrow_commits, callLog, fetched, csv, dedupVars>>

\* The extractor returned to collect_data: all_data.extend(...), filtered
\* through filter_duplicate_commits when the records are commits.
CollectReturn ==
    /\ pc = "extract"
    /\ idx > Len(results)
    /\ repoIdx \in 1..Len(Repos)
    /\ IF url.kind = "commits"
       THEN /\ all_data' = extend(all_data, filter_duplicate_commits(arrow_commits, out))
            /\ fetched' = [fetched EXCEPT ![url.repo] = out]
       ELSE /\ all_data' = extend(all_data, out)
            /\ UNCHANGED fetched
    /\ Advance
    /\ DropFrame
    /\ pc' = "idle"
    /\ UNCHANGED <<exc, url, page, retries, response, lastPage, attempts, inOrder,
                   pagesGot, served, everyFailed, gateRet, resolverVars, arrow_commits, callLog,
                   csv, dedupVars>>

\* pd.DataFrame(all_data): the columns are the keys of the records.
Columns(data) == UNION { DOMAIN data[i] : i \in 1..Len(data) }

\* A missing value of a DataFrame.
NaN == "<NaN>"

\* The row of a record under the columns cols, with the timestamp parsed.
Row(rec, cols) ==
    [c \in cols |-> IF c \notin DOMAIN rec THEN NaN
                    ELSE IF c = "timestamp" THEN to_datetime(rec[c])
                    ELSE rec[c]]

\* df.sort_values(by="timestamp"): the default sort is not stable, so rows
\* of equal timestamp come in any order.
IndexPermutations(n) ==
    { f \in [1..n -> 1..n] : \A i, j \in 1..n : i # j => f[i] # f[j] }

IsSorted(rows) ==
    \A i \in 1..(Len(rows) - 1) : rows[i].timestamp <= rows[i + 1].timestamp

\* A fault for C10: the rows are left in the order collected.
sort_values_skipped(rows) == {rows}

sort_values(rows) ==
    { s \in { [i \in 1..Len(rows) |-> rows[f[i]]] : f \in IndexPermutations(Len(rows)) } :
        IsSorted(s) }

\* The end of collect_data and the module's last lines: the DataFrame,
\* del df["sha"] (KeyError when no record has a sha), the parsed timestamps,
\* the sort and to_csv.
Finish ==
    /\ pc = "idle"
    /\ repoIdx > Len(Repos)
    /\ IF "sha" \notin Columns(all_data)
       THEN /\ exc' = "KeyError"
            /\ pc' = "crashed"
            /\ UNCHANGED csv
       ELSE LET cols == Columns(all_data) \ {"sha"}
                rows == [i \in 1..Len(all_data) |-> Row(all_data[i], cols)]
            IN  /\ \E sorted \in sort_values(rows) :
                       csv' = [columns |-> cols, rows |-> sorted, written |-> TRUE]
                /\ pc' = "done"
                /\ UNCHANGED exc
    /\ UNCHANGED <<fetchVars, served, everyFailed, slept, gateRet, extractVars, resolverVars,
                   repoIdx, stage, arrow_commits, all_data, callLog, fetched, dedupVars>>

(***************************************************************************)
(* Initial values shared by the specifications.                            *)
(***************************************************************************)
NoFile == [columns |-> <<>>, rows |-> <<>>, written |-> FALSE]

InitCommon ==
    /\ exc = "none"
    /\ page = 1
    /\ retries = 3
    /\ results = <<>>
    /\ lastPage = 0
    /\ attempts = 0
    /\ inOrder = TRUE
    /\ pagesGot = <<>>
    /\ served = 0
    /\ everyFailed = TRUE
    /\ slept = <<>>
    /\ gateRet = 1
    /\ idx = 1
    /\ out = <<>>
    /\ cache = [u \in Usernames |-> NotCached]
    /\ profileReqs = [u \in Usernames |-> 0]
    /\ resolverCalls = [k \in KindSet |-> {}]
    /\ repoIdx = 0
    /\ stage = 1
    /\ arrow_commits = <<>>
    /\ all_data = <<>>
    /\ callLog = <<>>
    /\ fetched = [r \in RepoSet |-> <<>>]
    /\ csv = NoFile

(***************************************************************************)
(* fetch_paginated_data called on its own, on any endpoint.                *)
(***************************************************************************)
NoDedup ==
    /\ dedupArgs = [source |-> <<>>, target |-> <<>>]
    /\ dedupOut = <<>>

InitFetch ==
    /\ InitCommon
    /\ NoDedup
    /\ response = NoResponse
    /\ url \in { [repo |-> Canonical, kind |-> k] : k \in KindSet }
    /\ pc = "request"

NextFetch == FetcherRequest \/ FetcherGate \/ FetcherStatus

SpecFetch == InitFetch /\ [][NextFetch]_vars

(***************************************************************************)
(* check_rate_limit called on its own, on any response headers.            *)
(***************************************************************************)
GateInputs ==
    { Response(200, r, d) : r \in 0..MaxRemaining, d \in (0 - MaxSkew)..MaxAhead }

InitGate ==
    /\ InitCommon
    /\ NoDedup
    /\ url = [repo |-> Canonical, kind |-> "commits"]
    /\ response \in GateInputs
    /\ pc = "gate_call"

GateCall ==
    /\ pc = "gate_call"
    /\ LET g == check_rate_limit(response)
       IN  /\ slept' = g.sleeps
           /\ IF g.raised
              THEN /\ exc' = "ValueError"
                   /\ pc' = "crashed"
                   /\ UNCHANGED gateRet
              ELSE /\ gateRet' = g.ret
                   /\ pc' = "gate_done"
                   /\ UNCHANGED exc
    /\ UNCHANGED <<fetchVars, served, everyFailed, extractVars, resolverVars, runVars, dedupVars>>

NextGate == GateCall

SpecGate == InitGate /\ [][NextGate]_vars

(***************************************************************************)
(* filter_duplicate_commits called on its own, on any two commit lists.    *)
(***************************************************************************)
\* The commits the two lists are drawn from: sha1 and sha2 of CommitItems and
\* a third one, each as fetch_commits records it for the repository.
DedupItems == CommitItems \cup { Item("alice", T3, "sha3", "Alice (git)", FALSE) }

CommitRecords(repo) ==
    { Record("commits", repo, c, UsernameOf(c), c.author_name) : c \in DedupItems }

InitDedup ==
    /\ InitCommon
    /\ response = NoResponse
    /\ url = [repo |-> Canonical, kind |-> "commits"]
    /\ dedupArgs \in
           { [source |-> a, target |-> b] :
               a \in SeqsOf(CommitRecords(Canonical), 0, MaxCommits),
               b \in SeqsOf(CommitRecords(Repos[1]), 0, MaxCommits) }
    /\ dedupOut = <<>>
    /\ pc = "dedup_call"

DedupCall ==
    /\ pc = "dedup_call"
    /\ dedupOut' = filter_duplicate_commits(dedupArgs.source, dedupArgs.target)
    /\ pc' = "dedup_done"
    /\ UNCHANGED <<exc, fetchVars, served, everyFailed, slept, gateRet, extractVars,
                   resolverVars, runVars, dedupArgs>>

NextDedup == DedupCall

SpecDedup == InitDedup /\ [][NextDedup]_vars

(***************************************************************************)
(* The whole program.                                                      *)
(***************************************************************************)
Init ==
    /\ InitCommon
    /\ NoDedup
    /\ response = NoResponse
    /\ url = [repo |-> Canonical, kind |-> "commits"]
    /\ pc = "idle"

Next ==
    \/ FetchArrowCommits
    \/ FetcherRequest
    \/ FetcherGate
    \/ FetcherStatus
    \/ ExtractorBegin
    \/ ExtractItem
    \/ ArrowCommitsReturn
    \/ CollectCall
    \/ CollectCanonical
    \/ CollectReturn
    \/ Finish

Spec == Init /\ [][Next]_vars


(***************************************************************************)
(* Operators the properties are stated with.                               *)
(***************************************************************************)
RECURSIVE Flatten(_)
\* The concatenation of the bodies of a sequence of [page, data] entries.
Flatten(entries) ==
    IF entries = <<>> THEN <<>>
    ELSE Flatten(SubSeq(entries, 1, Len(entries) - 1)) \o entries[Len(entries)].data

RECURSIVE SumLen(_)
\* The sum of the item counts of a sequence of [page, data] entries.
SumLen(entries) ==
    IF entries = <<>> THEN 0
    ELSE SumLen(SubSeq(entries, 1, Len(entries) - 1)) + Len(entries[Len(entries)].data)

\* The shas of a list of commit records.
ShasOf(commits) == { commits[i].sha : i \in 1..Len(commits) }

\* The positions of target whose sha does not occur in source.
KeptPositions(source, target) ==
    { i \in 1..Len(target) : target[i].sha \notin ShasOf(source) }

\* Whether result is target without the commits whose sha occurs in source:
\* its j-th element is the element of target at the j-th kept position.
IsTargetMinusSource(result, source, target) ==
    LET kept == KeptPositions(source, target)
        nth(j) == CHOOSE i \in kept : Cardinality({ k \in kept : k <= i }) = j
    IN  /\ Len(result) = Cardinality(kept)
        /\ \A j \in 1..Len(result) : result[j] = target[nth(j)]

\* The number of positions of seq that hold x.
Count(x, seq) == Cardinality({ i \in 1..Len(seq) : seq[i] = x })

\* The set of elements of a sequence.
Range(seq) == { seq[i] : i \in 1..Len(seq) }

\* Every record the program holds.
AllRecords ==
    Range(out) \cup Range(all_data) \cup Range(arrow_commits)
        \cup UNION { Range(fetched[r]) : r \in RepoSet }

\* The author name embedded in the commit of a commit record.
EmbeddedName(rec) == (CHOOSE c \in CommitItems : c.sha = rec.sha).author_name

\* The commit records of data that belong to repo, in order.
CommitsOf(data, repo) ==
    SelectSeq(data, LAMBDA r : r.action_type = "commit" /\ r.repository = repo)

\* The third request in a row for the same page has failed.
FailedThrice == attempts = 3 /\ response.status \notin {200, 0}

(***************************************************************************)
(* C1.  In fetch_paginated_data every page is requested at most 3 times;   *)
(* when 3 consecutive requests for the same page return a non-200 status,  *)
(* pagination stops, no further page is requested, no exception reaches    *)
(* the caller, and the list returned is exactly the items of the pages     *)
(* that succeeded before the failing page.                                 *)
(***************************************************************************)
C1_ThreeFailuresEndPagination ==
    /\ attempts <= 3
    /\ FailedThrice =>
          /\ pc \in {"gate", "status", "returned"}
          /\ exc = "none"
          /\ pc = "returned" =>
                /\ results = Flatten(pagesGot)
                /\ Len(pagesGot) = page - 1
                /\ lastPage = page

(***************************************************************************)
(* C2, as the claim states it.  fetch_paginated_data requests the pages in *)
(* the order 1, 2, 3, ... and returns the concatenation, in page order, of *)
(* the items of pages 1..k-1, where k is the first page that returned an   *)
(* empty collection.                                                       *)
(***************************************************************************)
C2_ReturnsPagesBeforeFirstEmptyPage ==
    /\ inOrder
    /\ pc = "returned" =>
          \E k \in 1..Len(pagesGot) :
              /\ pagesGot[k].data = <<>>
              /\ \A j \in 1..(k - 1) : pagesGot[j].data # <<>>
              /\ results = Flatten(SubSeq(pagesGot, 1, k - 1))
              /\ lastPage <= k

(***************************************************************************)
(* C2, amended.  fetch_paginated_data requests the pages in the order      *)
(* 1, 2, 3, ... (the same page again only to retry it) and, whenever it    *)
(* returns, returns the concatenation, in page order, of the items of      *)
(* pages 1..k-1, where k is the first page that either returned an empty   *)
(* collection or failed on 3 requests in a row; the length of the result   *)
(* is the sum of the item counts of those pages, and no page above k is    *)
(* requested.                                                              *)
(***************************************************************************)
C2_ReturnsPagesBeforeFirstEmptyOrFailedPage ==
    /\ inOrder
    /\ lastPage <= page
    /\ \A j \in 1..Len(pagesGot) : pagesGot[j].page = j
    /\ pc = "returned" =>
          LET k == page
              before == SubSeq(pagesGot, 1, k - 1)
          IN  /\ lastPage = k
              /\ Len(pagesGot) >= k - 1
              /\ \A j \in 1..(k - 1) : pagesGot[j].data # <<>>
              /\ results = Flatten(before)
              /\ Len(results) = SumLen(before)
              /\ \/ Len(pagesGot) = k /\ pagesGot[k].data = <<>>
                 \/ Len(pagesGot) = k - 1 /\ FailedThrice

\* Two pages of items were fetched and pagination ended on the third page.
C2_Witness ==
    /\ pc = "returned"
    /\ page = 3
    /\ Len(results) = 2
    /\ results[1] # results[2]

(***************************************************************************)
(* C3.  filter_duplicate_commits(A, B) contains no commit whose sha occurs *)
(* in A; every commit of B is in the result or has a sha that occurs in A; *)
(* the result keeps the order and the multiplicity of B's surviving        *)
(* commits.                                                                *)
(***************************************************************************)
C3_FilterKeepsExactlyTheNewCommits ==
    pc = "dedup_done" =>
        LET A == dedupArgs.source
            B == dedupArgs.target
        IN  /\ \A j \in 1..Len(dedupOut) : dedupOut[j].sha \notin ShasOf(A)
            /\ \A i \in 1..Len(B) : B[i] \in Range(dedupOut) \/ B[i].sha \in ShasOf(A)
            /\ IsTargetMinusSource(dedupOut, A, B)

\* B held a commit of A between two copies of a commit that is not in A.
C3_Witness ==
    /\ pc = "dedup_done"
    /\ Len(dedupArgs.target) = 3
    /\ Len(dedupOut) = 2
    /\ dedupOut[1] = dedupOut[2]
    /\ dedupArgs.target[2].sha \in ShasOf(dedupArgs.source)

(***************************************************************************)
(* C4.  Over a whole run fetch_display_name issues at most one profile     *)
(* request per username, whether that request succeeded or failed: once a  *)
(* call for a username has returned the cache holds an entry for it, an    *)
(* entry is there only through that one request, and every record built    *)
(* from a call for the username carries the cached value (a commit record  *)
(* the embedded author name when the cached value is empty).               *)
(***************************************************************************)
C4_OneProfileRequestPerUsername ==
    /\ \A u \in Usernames :
          /\ profileReqs[u] <= 1
          /\ (exc = "none" /\ profileReqs[u] = 1) => cache[u] # NotCached
          /\ cache[u] # NotCached => profileReqs[u] = 1
          /\ (\E k \in KindSet : u \in resolverCalls[k]) => profileReqs[u] = 1
    /\ \A r \in AllRecords :
          (r.action_type = "commit" \/ r.username # Unknown) =>
              /\ cache[r.username] # NotCached
              /\ r.name = IF r.action_type = "commit" /\ Falsy(cache[r.username])
                          THEN EmbeddedName(r)
                          ELSE cache[r.username]

\* Two records of one extractor call name alice, whose one profile request failed.
C4_Witness ==
    /\ Len(out) = 2
    /\ out[1].username = "alice"
    /\ out[2].username = "alice"
    /\ profileReqs["alice"] = 1
    /\ cache["alice"] = ""

\* What the extractor has built so far, against the items it has gone through.
ExtractedSoFar ==
    SelectSeq(SubSeq(results, 1, idx - 1), LAMBDA item : ~Skips(url.kind, item))

(***************************************************************************)
(* C5, as the claim states it.  In every one of the five extractors an     *)
(* item whose user/author reference is null yields a record with username  *)
(* "Unknown" and name "Unknown", and no profile lookup is made for it.     *)
(***************************************************************************)
C5_NullUserIsUnknownWithoutLookup ==
    /\ \A k \in KindSet : Unknown \notin resolverCalls[k]
    /\ profileReqs[Unknown] = 0
    /\ \A r \in AllRecords : r.username = Unknown => r.name = "Unknown"

(***************************************************************************)
(* C5, amended.  In the extractors of pull requests, issues, issue         *)
(* comments and review comments an item whose user reference is null       *)
(* yields a record with username "Unknown" and name "Unknown", and neither *)
(* a call of fetch_display_name nor a profile request is made for it.  In  *)
(* fetch_commits a commit whose author reference is null yields a record   *)
(* with username "Unknown"; fetch_display_name is called with "Unknown",   *)
(* and the name is the display name it resolved or, when that is empty,    *)
(* the commit's embedded author name.                                      *)
(***************************************************************************)
C5_NullUserIsUnknownOutsideCommits ==
    /\ \A k \in KindSet \ {"commits"} : Unknown \notin resolverCalls[k]
    /\ profileReqs[Unknown] > 0 => Unknown \in resolverCalls["commits"]
    /\ pc = "extract" =>
          /\ Len(out) = Len(ExtractedSoFar)
          /\ \A i \in 1..Len(out) :
                ExtractedSoFar[i].user = Null => out[i].username = Unknown
    /\ \A r \in AllRecords :
          r.username = Unknown =>
              IF r.action_type = "commit"
              THEN /\ Unknown \in resolverCalls["commits"]
                   /\ r.name = IF Falsy(cache[Unknown]) THEN EmbeddedName(r)
                               ELSE cache[Unknown]
              ELSE r.name = "Unknown"

\* An issue comment without a user has been recorded, and no lookup of
\* "Unknown" has been made.
C5_Witness ==
    /\ pc = "extract"
    /\ url.kind = "issues/comments"
    /\ idx = 2
    /\ results[1].user = Null
    /\ out[1].username = Unknown
    /\ out[1].name = "Unknown"
    /\ profileReqs[Unknown] = 0

(***************************************************************************)
(* C6.  check_rate_limit, given a remaining count of 0, sleeps for the     *)
(* reset epoch minus the current epoch plus 1 second, floored at a small   *)
(* positive value, so the sleep is strictly positive for every reset       *)
(* epoch; given another remaining count it does not sleep; in both cases   *)
(* it returns the remaining count.                                         *)
(***************************************************************************)
C6_GateSleepIsPositive ==
    pc # "gate_call" =>
        /\ exc = "none"
        /\ gateRet = response.remaining
        /\ IF response.remaining = 0
           THEN /\ Len(slept) = 1
                /\ slept[1] > 0
                /\ slept[1] >= response.resetIn + 1
                /\ response.resetIn >= 0 => slept[1] = response.resetIn + 1
           ELSE slept = <<>>

(***************************************************************************)
(* C7.  Fetch failures never abort a run: when every page fetch of every   *)
(* endpoint fails, the run still goes on to build, sort and persist the    *)
(* dataset, and no exception is raised.  (The ValueError of                *)
(* check_rate_limit needs no failed fetch and is the subject of C6; the    *)
(* runs it ends are set aside here.)                                       *)
(***************************************************************************)
C7_FailedFetchesDoNotAbortTheRun ==
    (everyFailed /\ pc = "crashed") => exc = "ValueError"

\* After a response with remaining = 0 the next step is the gate's: it issues
\* no request, and unless time.sleep raises it has slept reset - now + 1.
GateSleepsFirst ==
    (pc = "gate" /\ response.remaining = 0) =>
        /\ UNCHANGED <<lastPage, attempts, results>>
        /\ pc' = "status" => slept' = <<response.resetIn + 1>>

\* The items of a 200 response with remaining = 0 are appended to results.
SuccessIsKept ==
    (pc = "status" /\ response.remaining = 0 /\ response.status = 200) =>
        /\ Len(pagesGot') = Len(pagesGot) + 1
        /\ results' = results \o pagesGot'[Len(pagesGot')].data

(***************************************************************************)
(* C8, as the claim states it.  After a page response that reports         *)
(* remaining = 0 no request is issued before the gate has slept; then the  *)
(* fetcher goes on: it requests the same page again if the response was a  *)
(* failure, and appends the items of a response that succeeded.            *)
(***************************************************************************)
C8_ExhaustedQuotaAlwaysRetried ==
    [][ /\ GateSleepsFirst
        /\ SuccessIsKept
        /\ (pc = "status" /\ response.remaining = 0 /\ response.status # 200) =>
              (pc' = "request" /\ page' = page /\ results' = results)
      ]_vars

(***************************************************************************)
(* C8, amended.  After a page response that reports remaining = 0 no       *)
(* request is issued before the gate has slept; then the fetcher goes on:  *)
(* if the response was a failure it requests the same page again, unless   *)
(* it was the third request in a row for that page, after which            *)
(* pagination stops with the items accumulated so far; it appends the      *)
(* items of a response that succeeded.                                     *)
(***************************************************************************)
C8_ExhaustedQuotaRetriedWhileAttemptsRemain ==
    [][ /\ GateSleepsFirst
        /\ SuccessIsKept
        /\ (pc = "status" /\ response.remaining = 0 /\ response.status # 200) =>
              /\ results' = results
              /\ page' = page
              /\ pc' = IF attempts < 3 THEN "request" ELSE "returned"
      ]_vars

\* The third request in a row for the second page was answered 500 with
\* remaining = 0; the gate slept, and pagination ended with the first page's
\* items.
C8_Witness ==
    /\ pc = "returned"
    /\ FailedThrice
    /\ response.remaining = 0
    /\ page = 2
    /\ results # <<>>

(***************************************************************************)
(* C9.  The commits of apache/arrow are fetched exactly once, by the first *)
(* call of the run, before any request for a repository of the list; the   *)
(* aggregated records hold every commit of apache/arrow unfiltered, and    *)
(* for every other repository exactly those of its fetched commits whose   *)
(* sha does not occur among the commits of apache/arrow.                   *)
(***************************************************************************)
C9_CanonicalOnceAndMirrorsFiltered ==
    LET canonicalCall == [repo |-> Canonical, kind |-> "commits"]
        Aggregated(i) == repoIdx > i \/ (repoIdx = i /\ stage > 1)
    IN  /\ callLog # <<>> => callLog[1] = canonicalCall
        /\ \A i \in 2..Len(callLog) : callLog[i] # canonicalCall
        /\ repoIdx >= 1 => (callLog # <<>> /\ arrow_commits = fetched[Canonical])
        /\ \A i \in 1..Len(Repos) :
              Aggregated(i) =>
                  IF Repos[i] = Canonical
                  THEN CommitsOf(all_data, Repos[i]) = arrow_commits
                  ELSE IsTargetMinusSource(CommitsOf(all_data, Repos[i]),
                                           arrow_commits, fetched[Repos[i]])

\* A run that got through collect_data, in which a mirror's only commit was
\* dropped because apache/arrow has it.
C9_Witness ==
    /\ repoIdx > Len(Repos)
    /\ arrow_commits # <<>>
    /\ fetched[Repos[1]] # <<>>
    /\ CommitsOf(all_data, Repos[1]) = <<>>

\* The row of activity.csv that a collected record becomes.
PersistedRow(rec) ==
    [timestamp |-> to_datetime(rec.timestamp), username |-> rec.username,
     name |-> rec.name, action_type |-> rec.action_type,
     repository |-> rec.repository]

(***************************************************************************)
(* C10.  For every completed run the persisted dataset has no sha column,  *)
(* its rows are in ascending timestamp order, and it holds exactly the     *)
(* records the aggregator collected, each with the columns timestamp,      *)
(* username, name, action_type, repository.                                *)
(***************************************************************************)
C10_DatasetSortedWithoutSha ==
    pc = "done" =>
        LET expected == [i \in 1..Len(all_data) |-> PersistedRow(all_data[i])]
        IN  /\ csv.written
            /\ csv.columns = {"timestamp", "username", "name", "action_type", "repository"}
            /\ \A i \in 1..Len(csv.rows) : DOMAIN csv.rows[i] = csv.columns
            /\ \A i \in 1..(Len(csv.rows) - 1) :
                  csv.rows[i].timestamp <= csv.rows[i + 1].timestamp
            /\ Len(csv.rows) = Len(expected)
            /\ \A row \in Range(csv.rows) \cup Range(expected) :
                  Count(row, csv.rows) = Count(row, expected)

\* A completed run whose records were collected out of timestamp order.
C10_Witness ==
    /\ pc = "done"
    /\ Len(all_data) = 2
    /\ to_datetime(all_data[1].timestamp) > to_datetime(all_data[2].timestamp)
    /\ "sha" \notin DOMAIN all_data[2]

=============================================================================
